---- MODULE Spec2Model ----
(***************************************************************************)
(* A model of the cybernews feed engine (src/cyberfeed.py):               *)
(*   - the deduplication store      CyberNewsFeed.remove_duplicates        *)
(*   - the extractor                CyberNewsFeed.get_articles, _get_text  *)
(*   - the session's retry policy   CyberNewsFeed._create_session          *)
(*   - the notifier                 CyberNewsFeed.send_to_discord          *)
(*   - the orchestrator             CyberNewsFeed.run                      *)
(* Each component has its own specification over the shared variables.     *)
(***************************************************************************)
EXTENDS Integers, Sequences, FiniteSets, TLC

VARIABLES
    seen_file,      \* data/seen_articles.json: [kind, data]
    now,            \* the wall clock, in days (datetime.now())
    last,           \* the latest remove_duplicates call: arguments, outcome,
                    \* and how it relates to the call before it
    source,         \* the SourceConfig handed to get_articles
    page,           \* the elements article_selector matches, in document order
    max_articles,   \* self.config["max_articles"]
    extracted,      \* the outcome of get_articles
    http,           \* one session.get in flight: attempts made, retries left
    notify,         \* one send_to_discord call in flight
    run,            \* the orchestrator: configured sources, position, logs
    callers         \* remove_duplicates calls in flight at the same time

vars == <<seen_file, now, last, source, page, max_articles, extracted, http,
          notify, run, callers>>

storeVars == <<seen_file, now, last>>
extractVars == <<source, page, max_articles, extracted>>

(***************************************************************************)
(* Bounds of the model.                                                    *)
(***************************************************************************)
NumLinks == 2        \* distinct article links
MaxPage == 6         \* longest listing page
MaxSend == 3         \* longest batch handed to send_to_discord
MaxRuns == 2         \* runs of run() in a behaviour
NumSources == 2      \* configured sources
MaxTime == 2         \* last day the clock reaches

(***************************************************************************)
(* Program constants.                                                      *)
(***************************************************************************)
RetentionDays == 7   \* timedelta(days=7)

\* An absolute link: the href as it stands (no link_prefix).
AbsLink(i) == [prefix |-> "", path |-> i]

Links == {AbsLink(i) : i \in 1..NumLinks}
Times == (0 - RetentionDays)..MaxTime

\* Sequences over S of length at most n.
SeqsUpTo(S, n) == UNION {[1..k -> S] : k \in 0..n}

Range(s) == {s[i] : i \in 1..Len(s)}

(***************************************************************************)
(* Article: the dataclass; remove_duplicates reads only .link.             *)
(***************************************************************************)
None == "None"

Article(link) ==
    [title |-> "Title", link |-> link, category |-> None, author |-> None,
     published_date |-> None, description |-> None, summary |-> None]

LinksOf(articles) == {articles[i].link : i \in 1..Len(articles)}

(***************************************************************************)
(* Timestamps are persisted as text.  isoformat writes the instant as an   *)
(* ISO string; fromisoformat parses such a string back and raises          *)
(* ValueError on any other text.                                           *)
(***************************************************************************)
isoformat(t) == [fmt |-> "iso", text |-> t]

JunkText == [fmt |-> "junk", text |-> 0]

IsIsoText(s) == s.fmt = "iso"

fromisoformat(s) == s.text

(***************************************************************************)
(* A persisted record is a JSON object: a function whose domain holds the  *)
(* keys that are present.                                                  *)
(***************************************************************************)
SeenRecord(link, t) == [link |-> link, timestamp |-> isoformat(t)]

HasKey(r, k) == k \in DOMAIN r

\* The file: missing, unparsable text, or a JSON list of objects.
MissingFile == [kind |-> "missing", data |-> <<>>]
GarbageFile == [kind |-> "garbage", data |-> <<>>]
ListFile(recs) == [kind |-> "list", data |-> recs]

\* At most one record per link among the records of a list.
UniqueLinks(recs) ==
    \A i, j \in 1..Len(recs) :
        (i # j /\ HasKey(recs[i], "link") /\ HasKey(recs[j], "link"))
            => recs[i].link # recs[j].link

(***************************************************************************)
(* remove_duplicates, step by step.                                        *)
(***************************************************************************)
\* json.load raises on unparsable text; a missing file is the empty list.
LoadRaises(file) == file.kind = "garbage"

Loaded(file) == IF file.kind = "list" THEN file.data ELSE <<>>

\* The retention comprehension reads article["timestamp"] of every record
\* and parses it: KeyError or ValueError on the first bad one.
PruneRaises(recs) ==
    \E i \in 1..Len(recs) :
        \/ ~HasKey(recs[i], "timestamp")
        \/ ~IsIsoText(recs[i].timestamp)

KeepRecordMutant(r, current_time) == TRUE

KeepRecord(r, current_time) ==
    fromisoformat(r.timestamp) > current_time - RetentionDays

RetainedMutant(recs, current_time) == <<>>

Retained(recs, current_time) ==
    SelectSeq(recs, LAMBDA r : KeepRecord(r, current_time))

Pruned(recs, current_time) ==
    SelectSeq(recs, LAMBDA r : ~KeepRecord(r, current_time))

\* any(seen["link"] == link for seen in seen_articles): scans in order,
\* stops at the first match, raises KeyError at a record without "link".
RECURSIVE AnySeen(_, _, _)
AnySeen(seen, link, i) ==
    IF i > Len(seen) THEN "false"
    ELSE IF ~HasKey(seen[i], "link") THEN "raise"
    ELSE IF seen[i].link = link THEN "true"
    ELSE AnySeen(seen, link, i + 1)

\* One iteration of the filter loop on state st = [seen, new, raised].
FilterStepStampMutant(st, article, t) ==
    IF st.raised THEN st
    ELSE LET a == AnySeen(st.seen, article.link, 1) IN
         IF a = "raise" THEN [st EXCEPT !.raised = TRUE]
         ELSE [seen |-> Append(st.seen, SeenRecord(article.link, t)),
               new |-> IF a = "true" THEN st.new ELSE Append(st.new, article),
               raised |-> FALSE]

FilterStep(st, article, t) ==
    IF st.raised THEN st
    ELSE LET a == AnySeen(st.seen, article.link, 1) IN
         IF a = "raise" THEN [st EXCEPT !.raised = TRUE]
         ELSE IF a = "true" THEN st
         ELSE [seen |-> Append(st.seen, SeenRecord(article.link, t)),
               new |-> Append(st.new, article),
               raised |-> FALSE]

RECURSIVE FilterLoop(_, _, _, _)
FilterLoop(st, articles, i, t) ==
    IF i > Len(articles) THEN st
    ELSE FilterLoop(FilterStep(st, articles[i], t), articles, i + 1, t)

\* The outcomes the file system can give one call: "read_error" fails
\* the read of an existing file, "open_error" fails open('w') and leaves
\* the file as it was, "dump_error" fails json.dump after open('w') has
\* truncated the file.
IoOutcomes == {"ok", "read_error", "open_error", "dump_error"}

\* The exception the try body ends with ("none": it reaches the return).
BodyException(file, recs, st, io) ==
    IF io = "read_error" /\ file.kind # "missing" THEN "OSError"
    ELSE IF LoadRaises(file) THEN "JSONDecodeError"
    ELSE IF \E i \in 1..Len(recs) : ~HasKey(recs[i], "timestamp")
        THEN "KeyError"
    ELSE IF PruneRaises(recs) THEN "ValueError"
    ELSE IF st.raised THEN "KeyError"
    ELSE IF io \in {"open_error", "dump_error"} THEN "OSError"
    ELSE "none"

\* except Exception as e: every exception of the body is caught.
CaughtMutant(exc) == exc \in {"OSError", "JSONDecodeError"}

Caught(exc) == exc \in {"OSError", "JSONDecodeError", "KeyError", "ValueError"}

\* What the except clause returns.
OnStoreErrorMutant(new) == new

OnStoreError(new) == <<>>

\* The file after the call: json.dump only runs when nothing raised before
\* open('w'); open('w') truncates before json.dump writes.
FileAfter(file, st, exc, io) ==
    IF exc = "none" THEN ListFile(st.seen)
    ELSE IF exc = "OSError" /\ io = "dump_error" THEN GarbageFile
    ELSE file

\* The whole call: [ret, file, exc, raised, pruned].  pruned: the links of
\* the records the retention step dropped.
remove_duplicates(articles, file, current_time, io) ==
    LET recs == Loaded(file)
        early == LoadRaises(file) \/ PruneRaises(recs)
        kept == IF early THEN <<>> ELSE Retained(recs, current_time)
        st == FilterLoop([seen |-> kept, new |-> <<>>, raised |-> FALSE],
                         articles, 1, current_time)
        exc == BodyException(file, recs, st, io)
    IN  [ret |-> IF exc = "none" THEN st.new
                 ELSE IF Caught(exc) THEN OnStoreError(st.new)
                 ELSE <<>>,
         raised |-> exc # "none" /\ ~Caught(exc),
         exc |-> exc,
         file |-> FileAfter(file, st, exc, io),
         pruned |-> IF exc = "none"
                    THEN {r.link : r \in
                            {x \in Range(Pruned(recs, current_time)) :
                                HasKey(x, "link")}}
                    ELSE {}]

(***************************************************************************)
(* The extractor: get_articles on one listing page.                        *)
(***************************************************************************)
DefaultMaxArticles == 5

RequiredKeys == {"name", "url", "article_selector", "title_selector"}

OptionalSelectors ==
    {"category_selector", "description_selector", "author_selector",
     "date_selector"}

\* A SourceConfig is a JSON object: its domain holds the keys the
\* configuration file gives.  The default source of _load_config:
DefaultSource ==
    [k \in RequiredKeys \cup OptionalSelectors \cup {"exclude_sponsored"} |->
        IF k = "exclude_sponsored" THEN "true" ELSE k]

Without(src, key) == [k \in (DOMAIN src) \ {key} |-> src[k]]

With(src, key, val) ==
    [k \in (DOMAIN src) \cup {key} |-> IF k = key THEN val ELSE src[k]]

\* The sources of the model: the default one, one that keeps sponsored
\* items and sets link_prefix, one that leaves exclude_sponsored out, and
\* the default one with one optional selector left out.
Sources ==
    {DefaultSource,
     With(With(DefaultSource, "exclude_sponsored", "false"),
          "link_prefix", "https://site"),
     With(Without(DefaultSource, "exclude_sponsored"),
          "link_prefix", "https://site")}
        \cup {Without(DefaultSource, k) : k \in OptionalSelectors}

\* source.get(key, default)
Get(src, key, default) == IF key \in DOMAIN src THEN src[key] ELSE default

\* A candidate element: whether its text holds "Sponsored Content", what
\* title_selector finds in it (nothing, an anchor whose text is blank, an
\* anchor with text), and the anchor's href.
ElementKinds ==
    {[sponsored |-> FALSE, title |-> " Title "],
     [sponsored |-> FALSE, title |-> "   "],
     [sponsored |-> FALSE, title |-> "no match"],
     [sponsored |-> TRUE, title |-> " Title "]}

\* The href of the i-th element of a listing: relative or absolute.
Href(i) == [http |-> i % 2 = 0, path |-> i]

Element(kind, i) ==
    [sponsored |-> kind.sponsored, title |-> kind.title, href |-> Href(i)]

PageOf(kinds) == [i \in 1..Len(kinds) |-> Element(kinds[i], i)]

\* str.strip() of the title texts of the model.
Strip(text) ==
    IF text = " Title " THEN "Title" ELSE IF text = "   " THEN "" ELSE text

\* if not link.startswith('http'): link = source.get('link_prefix', '') + link
LinkOf(src, href) ==
    IF href.http THEN [prefix |-> "", path |-> href.path]
    ELSE [prefix |-> Get(src, "link_prefix", ""), path |-> href.path]

\* _get_text: the stripped text of the match, None on no match and on any
\* exception of the selection.
SelectOutcomes == {"match", "no match", "error"}

_get_text(outcome) == IF outcome = "match" THEN "text" ELSE None

\* generate_summary: the first sentences of the page, None when the page
\* has no text or anything raises.
generate_summary(outcome) == IF outcome = "match" THEN "summary" ELSE None

\* article_elements[:max_articles]
CandidatesMutant(elements, max) ==
    LET nonSponsored == SelectSeq(elements, LAMBDA e : ~e.sponsored)
    IN  SubSeq(nonSponsored, 1,
               IF Len(nonSponsored) < max THEN Len(nonSponsored) ELSE max)

Candidates(elements, max) ==
    SubSeq(elements, 1, IF Len(elements) < max THEN Len(elements) ELSE max)

\* The tests that skip a candidate: sponsored content, no title element.
SkipsSponsored(src, element) ==
    Get(src, "exclude_sponsored", "true") = "true" /\ element.sponsored

\* if not title_element: a Tag is truthy whatever it holds, so only a
\* select_one that matched nothing skips the candidate.
TitleMissing(element) == element.title = "no match"

\* Building the Article evaluates source["category_selector"] and the three
\* other optional selectors: KeyError when the source leaves one out.
SelectorKeyError(src) == ~(OptionalSelectors \subseteq DOMAIN src)

\* One iteration of the loop on state st = [articles, exc].
ExtractStep(st, src, element, site) ==
    IF st.exc # "none" THEN st
    ELSE IF SkipsSponsored(src, element) THEN st
    ELSE IF TitleMissing(element) THEN st
    ELSE IF SelectorKeyError(src) THEN [st EXCEPT !.exc = "KeyError"]
    ELSE [st EXCEPT !.articles = Append(@,
            [title |-> Strip(element.title),
             link |-> LinkOf(src, element.href),
             category |-> _get_text(site),
             description |-> _get_text(site),
             author |-> _get_text(site),
             published_date |-> _get_text(site),
             summary |-> generate_summary(site)])]

RECURSIVE ExtractLoop(_, _, _, _, _)
ExtractLoop(st, src, elements, i, site) ==
    IF i > Len(elements) THEN st
    ELSE ExtractLoop(ExtractStep(st, src, elements[i], site), src, elements,
                     i + 1, site)

\* The outcomes of session.get + raise_for_status on the listing URL.
FetchOutcomes == {"ok", "RequestException"}

\* The whole call: [exc, articles].  exc "none": articles is returned;
\* otherwise the exception leaves get_articles.
get_articles(src, elements, max, fetch, site) ==
    IF fetch = "RequestException"
    THEN [exc |-> "none", articles |-> <<>>]
    ELSE ExtractLoop([exc |-> "none", articles |-> <<>>], src,
                     Candidates(elements, max), 1, site)

(***************************************************************************)
(* The session of _create_session: every request goes through an           *)
(* HTTPAdapter with Retry(total=3, backoff_factor=1,                       *)
(* status_forcelist=[429, 500, 502, 503, 504],                             *)
(* allowed_methods=["GET", "POST"]).                                       *)
(***************************************************************************)
RetryTotal == 3

StatusForcelist == {429, 500, 502, 503, 504}

\* Retry's defaults: respect_retry_after_header is on, and a response that
\* carries a Retry-After header is retried when its status is one of these.
RetryAfterStatusCodes == {413, 429, 503}

\* What one attempt can meet: a transport-level failure (connection, read,
\* timeout), or a response with a status, with or without Retry-After.
TransportError == [kind |-> "transport_error", status |-> 0,
                   retry_after |-> FALSE]

Response(status, retry_after) ==
    [kind |-> "response", status |-> status, retry_after |-> retry_after]

Responses ==
    {TransportError, Response(413, TRUE)}
        \cup {Response(c, FALSE) :
                c \in {200, 404, 413} \cup StatusForcelist}

\* Retry.is_retry: a status of the forcelist, or, while retries are left,
\* a Retry-After response with one of the Retry-After statuses.
IsRetry(resp, total) ==
    \/ resp.status \in StatusForcelist
    \/ (total > 0 /\ resp.retry_after
        /\ resp.status \in RetryAfterStatusCodes)

\* Retry.is_exhausted, after increment() has taken one retry off.
IsExhaustedMutant(total) == total < 0 - 1

IsExhausted(total) == total < 0

\* One attempt of a request with `total` retries left: retry (with one
\* retry less), raise (the retries are exhausted: RetryError or
\* ConnectionError, both RequestException), or return the response.
SessionStep(resp, total) ==
    IF resp.kind = "transport_error" \/ IsRetry(resp, total)
    THEN IF IsExhausted(total - 1)
         THEN [next |-> "raise", total |-> total - 1]
         ELSE [next |-> "retry", total |-> total - 1]
    ELSE [next |-> "return", total |-> total]

\* response.raise_for_status(): HTTPError for a 4xx or 5xx status.
RaisesForStatus(resp) == resp.status >= 400

(***************************************************************************)
(* The notifier: send_to_discord posts the articles one by one through    *)
(* the session.                                                            *)
(***************************************************************************)
\* What the webhook can answer one POST attempt with: success, a client
\* error, a rate limit (429 with Retry-After and a retry_after body), or a
\* transport failure.
RateLimited == Response(429, TRUE)

PostResponses ==
    {TransportError, Response(200, FALSE), Response(404, FALSE), RateLimited}

\* The call while it runs: i is the article being posted, total the
\* retries left to its POST, attempts[k] the POST attempts made for
\* article k, limited[k] whether one of them was answered 429, sleeps the
\* time.sleep(retry_after) calls made.
StartNotify(articles) ==
    [articles |-> articles, state |-> "called", i |-> 1,
     total |-> RetryTotal,
     attempts |-> [k \in 1..Len(articles) |-> 0],
     limited |-> [k \in 1..Len(articles) |-> FALSE],
     sleeps |-> 0, csv |-> FALSE]

\* if not articles: return
EnterNotify(n) ==
    [n EXCEPT !.state = IF Len(n.articles) = 0 THEN "returned" ELSE "sending"]

\* The statements after session.post returned a response: raise_for_status
\* (an HTTPError is a RequestException: logged, the batch ends), then the
\* rate-limit test, then the next article or the CSV export.
AfterResponse(n, resp) ==
    LET slept == IF resp.status = 429 THEN n.sleeps + 1 ELSE n.sleeps
    IN  IF RaisesForStatus(resp)
        THEN [n EXCEPT !.state = "aborted"]
        ELSE IF n.i = Len(n.articles)
        THEN [n EXCEPT !.state = "saving", !.sleeps = slept]
        ELSE [n EXCEPT !.i = n.i + 1, !.total = RetryTotal,
                       !.sleeps = slept]

\* One POST attempt for article n.i, answered by resp.
PostStep(n, resp) ==
    LET step == SessionStep(resp, n.total)
        m == [n EXCEPT !.attempts[n.i] = @ + 1,
                       !.limited[n.i] = @ \/ resp.status = 429]
    IN  IF step.next = "retry" THEN [m EXCEPT !.total = step.total]
        ELSE IF step.next = "raise" THEN [m EXCEPT !.state = "aborted"]
        ELSE AfterResponse(m, resp)

\* save_to_csv after the loop: an OSError is no RequestException and
\* leaves send_to_discord.
SaveStep(n, io) ==
    IF io = "ok" THEN [n EXCEPT !.state = "returned", !.csv = TRUE]
    ELSE [n EXCEPT !.state = "raised"]

(***************************************************************************)
(* The orchestrator: run() takes the configured sources in order; for      *)
(* each, get_articles, remove_duplicates, and send_to_discord when         *)
(* something is new, inside one try.                                       *)
(***************************************************************************)
\* send_to_discord as run() sees it: the first `sent` articles are posted;
\* with sent < Len(articles) the next POST ends in a RequestException,
\* which is logged and ends the batch; with all posted, save_to_csv runs
\* and an OSError of it leaves send_to_discord.
send_to_discord(articles, sent, io) ==
    [posted |-> {articles[k].link : k \in 1..sent},
     exc |-> IF sent = Len(articles) /\ Len(articles) > 0 /\ io = "OSError"
             THEN "OSError" ELSE "none"]

\* except Exception as e: in run().
RunCatchesMutant(exc) == exc = "RequestException"

RunCatches(exc) == exc \in {"KeyError", "OSError", "RequestException"}

\* The instants at which each link was returned as new, after a call of
\* remove_duplicates at instant t has returned the list ret.
ReturnsAfter(returns, ret, t) ==
    [l \in Links |->
        returns[l] \o [k \in 1..Cardinality({i \in 1..Len(ret) :
                                                ret[i].link = l}) |-> t]]

\* A link of the list was returned as new less than RetentionDays before
\* instant t.
SeenAgain(returns, articles, t) ==
    \E l \in LinksOf(articles) :
        \E k \in 1..Len(returns[l]) : t - returns[l][k] < RetentionDays

\* The position after the source at index i is finished.
AfterSource(r) ==
    IF r.i = Len(r.sources)
    THEN [r EXCEPT !.pc = "done", !.articles = <<>>, !.unique = <<>>,
                   !.fetch_failed = FALSE]
    ELSE [r EXCEPT !.pc = "fetch", !.i = r.i + 1, !.articles = <<>>,
                   !.unique = <<>>, !.fetch_failed = FALSE]

\* An exception reaches the try of run(): logged, next source; an
\* exception the handler does not catch leaves run().
OnRunException(r, exc) ==
    IF RunCatches(exc)
    THEN AfterSource([r EXCEPT !.failed = @ \cup {r.i}])
    ELSE [r EXCEPT !.pc = "raised"]

(***************************************************************************)
(* remove_duplicates under concurrent callers: the method takes no lock,   *)
(* so the steps of two calls on the same seen file interleave at the file  *)
(* operations: the read (exists, open('r'), json.load), open('w'), which   *)
(* truncates, and json.dump.                                               *)
(***************************************************************************)
Callers == {"A", "B"}

\* A call in flight: pc is "read", "open", "dump" or "done"; seen and new
\* are the call's local seen_articles and new_unique_articles; overlapped:
\* another call wrote the file while this one held it open for writing.
StartCaller(articles) ==
    [pc |-> "read", articles |-> articles, seen |-> <<>>, new |-> <<>>,
     ret |-> <<>>, exc |-> "none", overlapped |-> FALSE]

\* Lines 212-230 on the file as it is when the call reads it: load, prune,
\* filter, all on local data; an exception goes to the except clause.
ReadStep(c, file, current_time) ==
    LET recs == Loaded(file)
        early == LoadRaises(file) \/ PruneRaises(recs)
        kept == IF early THEN <<>> ELSE Retained(recs, current_time)
        st == FilterLoop([seen |-> kept, new |-> <<>>, raised |-> FALSE],
                         c.articles, 1, current_time)
        exc == BodyException(file, recs, st, "ok")
    IN  IF exc # "none"
        THEN [c EXCEPT !.pc = "done", !.exc = exc,
                       !.ret = OnStoreError(st.new)]
        ELSE [c EXCEPT !.pc = "open", !.seen = st.seen, !.new = st.new]

\* seen_file.open('w'): the file is truncated; an empty file does not
\* parse.
OpenStep(c) == [c EXCEPT !.pc = "dump"]

\* json.dump and return new_unique_articles.
DumpStep(c) == [c EXCEPT !.pc = "done", !.ret = c.new]

\* What the file holds after json.dump of a call.  The call writes from
\* offset 0 of its own handle: over a text another call wrote in between,
\* a shorter text leaves the tail of the longer one, which does not parse.
\* The text of the empty list is the shortest; between two lists of
\* records the lengths of the links decide.
DumpOutcomes(c, file) ==
    IF ~c.overlapped \/ file.kind # "list" \/ file.data = <<>>
    THEN {ListFile(c.seen)}
    ELSE IF c.seen = <<>> THEN {GarbageFile}
    ELSE {ListFile(c.seen), GarbageFile}

(***************************************************************************)
(* The values of the variables of a component that is not running.         *)
(***************************************************************************)
\* repeat: the call before this one had the same article list and was made
\* less than RetentionDays earlier; prev_failed: that call hit the except
\* clause.
NoCall == [made |-> FALSE, articles |-> <<>>, at |-> 0, ret |-> <<>>,
           exc |-> "none", raised |-> FALSE, pruned |-> {},
           repeat |-> FALSE, prev_failed |-> FALSE]

NotExtracted == [done |-> FALSE, fetch |-> "ok", exc |-> "none",
                 articles |-> <<>>]

\* log: what each attempt met; state: "sending", "ok" (a response that
\* passes raise_for_status), "failed" (a RequestException).
NoRequest == [log |-> <<>>, total |-> RetryTotal, state |-> "idle"]

NoNotify == [StartNotify(<<>>) EXCEPT !.state = "idle"]

\* pc: "idle", "fetch", "dedup", "send", "done", "raised"; i: the index of
\* the source in hand; fetched: the sources get_articles was called for;
\* fetch_failed: the listing fetch of the source in hand failed; failed:
\* the sources whose exception reached run(); unposted: the links the run
\* added to the seen file (remove_duplicates returned them as new) and
\* whose POST has not succeeded.  Kept from run to run: returns, for each link the instants
\* at which remove_duplicates returned it as new, in order; reseen, whether
\* a link was handed to remove_duplicates again less than RetentionDays
\* after it was returned as new.
NewRun(sources, n) ==
    [sources |-> sources, runs |-> n, pc |-> "idle", i |-> 1,
     articles |-> <<>>, unique |-> <<>>, fetched |-> <<>>,
     fetch_failed |-> FALSE, failed |-> {}, unposted |-> {},
     returns |-> [l \in Links |-> <<>>], reseen |-> FALSE]

NoRun == NewRun(<<>>, 0)

NoCallers == [c \in Callers |-> [StartCaller(<<>>) EXCEPT !.pc = "idle"]]

IdleStore ==
    /\ seen_file = MissingFile
    /\ now = 0
    /\ last = NoCall

(***************************************************************************)
(* The store specification: calls of remove_duplicates on one seen file,   *)
(* with the clock advancing between them.                                  *)
(***************************************************************************)
\* The records a seen file can hold when the program starts: written by an
\* earlier run (some expire at an instant the clock reaches), or damaged
\* (a key missing, a timestamp that does not parse).
InitTimes == {t - RetentionDays : t \in 0..MaxTime} \cup {0}

InitRecords ==
    {SeenRecord(l, t) : l \in Links, t \in InitTimes}
        \cup {[link |-> AbsLink(1), timestamp |-> JunkText]}
        \cup {[link |-> AbsLink(1)]}
        \cup {[timestamp |-> isoformat(0)]}

\* The file the program starts with: none, unparsable, or a list of at most
\* one record.
InitFiles ==
    {MissingFile, GarbageFile, ListFile(<<>>)}
        \cup {ListFile(<<r>>) : r \in InitRecords}

\* The article lists a call receives: none, one article, or two articles
\* (the same link twice included); the links being interchangeable, the
\* lists of two are taken in the order of their links.
Batches ==
    {<<>>} \cup {<<Article(a)>> : a \in Links}
           \cup {<<Article(p[1]), Article(p[2])>> :
                    p \in {q \in Links \X Links : q[1].path <= q[2].path}}

InitStoreVars ==
    /\ seen_file \in InitFiles
    /\ now = 0
    /\ last = NoCall

InitStore ==
    /\ InitStoreVars
    /\ source = DefaultSource
    /\ page = <<>>
    /\ max_articles = DefaultMaxArticles
    /\ extracted = NotExtracted
    /\ http = NoRequest
    /\ notify = NoNotify
    /\ run = NoRun
    /\ callers = NoCallers

RemoveDuplicatesCall ==
    \E articles \in Batches, io \in IoOutcomes :
        \E r \in {remove_duplicates(articles, seen_file, now, io)} :
            /\ seen_file' = r.file
            /\ last' = [made |-> TRUE, articles |-> articles, at |-> now,
                        ret |-> r.ret, exc |-> r.exc, raised |-> r.raised,
                        pruned |-> r.pruned,
                        repeat |-> /\ last.made
                                   /\ last.articles = articles
                                   /\ now - last.at < RetentionDays,
                        prev_failed |-> last.made /\ last.exc # "none"]
            /\ now' = now
            /\ UNCHANGED <<extractVars, http, notify, run, callers>>

Tick ==
    /\ now < MaxTime
    /\ now' = now + 1
    /\ UNCHANGED <<seen_file, last>>
    /\ UNCHANGED <<extractVars, http, notify, run, callers>>

NextStore == RemoveDuplicatesCall \/ Tick

SpecStore == InitStore /\ [][NextStore]_vars

\* A record of the file that is older than RetentionDays at instant t.
Stale(r, t) ==
    /\ HasKey(r, "timestamp")
    /\ IsIsoText(r.timestamp)
    /\ fromisoformat(r.timestamp) < t - RetentionDays

NoStaleRecord(file, t) ==
    \A i \in 1..Len(file.data) : ~Stale(file.data[i], t)

\* C1 as claimed: a call that repeats the call before it (same article
\* list, less than RetentionDays later, nothing in between), neither of the
\* two hitting a store failure, returns the empty list.
C1_SecondCallEmpty ==
    (last.made /\ last.repeat /\ ~last.prev_failed /\ last.exc = "none")
        => last.ret = <<>>

C5_StoreFailureReturnsEmpty ==
    (last.made /\ last.exc # "none")
        => (last.ret = <<>> /\ ~last.raised)

C5_Witness ==
    /\ last.made
    /\ last.exc = "KeyError"
    /\ last.articles # <<>>
    /\ last.ret = <<>>
    /\ ~last.raised

\* C10: the seen file never holds two records with the same link.
C10_OneRecordPerLink ==
    seen_file.kind = "list" => UniqueLinks(seen_file.data)

C10_Witness ==
    /\ last.made
    /\ last.exc = "none"
    /\ Len(last.articles) = 2
    /\ last.articles[1].link = last.articles[2].link
    /\ Len(last.ret) = 1
    /\ Len(seen_file.data) >= 2

\* C11 as claimed: right after a call that completes, every link of the
\* article list has a record in the seen file that carries the time of
\* this call, also when the link had a retained record already.
C11_LastSeenTimestampWins ==
    (last.made /\ last.exc = "none" /\ last.at = now)
        => \A l \in LinksOf(last.articles) :
              \E i \in 1..Len(seen_file.data) :
                  seen_file.data[i] = SeenRecord(l, last.at)

(***************************************************************************)
(* The extractor specification: one get_articles call on a drawn source,   *)
(* listing and cap.                                                        *)
(***************************************************************************)
InitExtract ==
    /\ source \in Sources
    /\ page \in {PageOf(kinds) : kinds \in SeqsUpTo(ElementKinds, MaxPage)}
    /\ max_articles \in 1..DefaultMaxArticles
    /\ extracted = NotExtracted
    /\ IdleStore
    /\ http = NoRequest
    /\ notify = NoNotify
    /\ run = NoRun
    /\ callers = NoCallers

GetArticles ==
    /\ ~extracted.done
    /\ \E fetch \in FetchOutcomes, site \in SelectOutcomes :
          \E r \in {get_articles(source, page, max_articles, fetch, site)} :
              extracted' = [done |-> TRUE, fetch |-> fetch, exc |-> r.exc,
                            articles |-> r.articles]
    /\ UNCHANGED <<source, page, max_articles>>
    /\ UNCHANGED <<storeVars, http, notify, run, callers>>

NextExtract == GetArticles

SpecExtract == InitExtract /\ [][NextExtract]_vars

\* get_articles has returned a list built from a fetched listing.
Returned == extracted.done /\ extracted.fetch = "ok" /\ extracted.exc = "none"

\* C6 as claimed: get_articles returns at most max_articles articles, and
\* every returned Article has a title that is non-empty after trimming.
C6_CappedAndTitled ==
    extracted.done =>
        /\ Len(extracted.articles) <= max_articles
        /\ \A i \in 1..Len(extracted.articles) :
              extracted.articles[i].title \notin {"", None}

\* The elements a truncate-then-filter extraction keeps: among the first
\* max_articles elements, those that are not skipped as sponsored and in
\* which title_selector matches.
KeptOfFirst(src, elements, max) ==
    LET n == IF Len(elements) < max THEN Len(elements) ELSE max
        first == [i \in 1..n |-> elements[i]]
    IN  SelectSeq(first, LAMBDA e :
            /\ ~(e.sponsored /\ Get(src, "exclude_sponsored", "true") = "true")
            /\ e.title # "no match")

\* C7: the list get_articles returns holds exactly the non-sponsored titled
\* elements among the first max_articles candidates, in document order; an
\* element beyond the cap is never promoted into it.
C7_TruncateThenFilter ==
    Returned =>
        LET kept == KeptOfFirst(source, page, max_articles)
        IN  /\ Len(extracted.articles) = Len(kept)
            /\ \A i \in 1..Len(kept) :
                  extracted.articles[i].link.path = kept[i].href.path
            /\ \A i \in 1..Len(extracted.articles) :
                  extracted.articles[i].link.path <= max_articles

\* The scenario of C7: 6 candidates, max_articles = 5, one sponsored
\* element among the first 5, the others titled: 4 articles.
C7_Witness ==
    /\ Returned
    /\ source = DefaultSource
    /\ Len(page) = 6
    /\ max_articles = 5
    /\ Cardinality({i \in 1..5 : page[i].sponsored}) = 1
    /\ \A i \in 1..6 : page[i].title = " Title "
    /\ ~page[6].sponsored
    /\ Len(extracted.articles) = 4

\* C8 as claimed: a source that leaves optional selectors out still gets
\* its articles, the fields of the selectors left out being None.
FieldOf(selector) ==
    IF selector = "category_selector" THEN "category"
    ELSE IF selector = "description_selector" THEN "description"
    ELSE IF selector = "author_selector" THEN "author"
    ELSE "published_date"

C8_OptionalSelectorsYieldNone ==
    (extracted.done /\ extracted.fetch = "ok") =>
        /\ extracted.exc = "none"
        /\ \A k \in OptionalSelectors \ DOMAIN source :
              \A i \in 1..Len(extracted.articles) :
                  extracted.articles[i][FieldOf(k)] = None

(***************************************************************************)
(* The fetch specification: one session.get(url) of get_articles followed  *)
(* by raise_for_status, attempt by attempt.                                *)
(***************************************************************************)
InitFetch ==
    /\ http = [log |-> <<>>, total |-> RetryTotal, state |-> "sending"]
    /\ IdleStore
    /\ source = DefaultSource
    /\ page = <<>>
    /\ max_articles = DefaultMaxArticles
    /\ extracted = NotExtracted
    /\ notify = NoNotify
    /\ run = NoRun
    /\ callers = NoCallers

Attempt ==
    /\ http.state = "sending"
    /\ \E resp \in Responses :
          \E step \in {SessionStep(resp, http.total)} :
              http' = [log |-> Append(http.log, resp),
                       total |-> step.total,
                       state |-> IF step.next = "retry" THEN "sending"
                                 ELSE IF step.next = "raise" THEN "failed"
                                 ELSE IF RaisesForStatus(resp) THEN "failed"
                                 ELSE "ok"]
    /\ UNCHANGED <<storeVars, extractVars, notify, run, callers>>

NextFetch == Attempt

SpecFetch == InitFetch /\ [][NextFetch]_vars

Retryable(resp) ==
    resp.kind = "transport_error" \/ resp.status \in StatusForcelist

OtherErrorStatus(resp) ==
    resp.kind = "response" /\ resp.status >= 400
        /\ resp.status \notin StatusForcelist

\* C9 as claimed: at most 3 attempts; an attempt is followed by another
\* only after a forcelist status or a transport failure; any other HTTP
\* error status ends the fetch as a failure, after one attempt when it
\* answers the first.
C9_AtMostThreeAttempts ==
    /\ Len(http.log) <= 3
    /\ \A i \in 1..Len(http.log) :
          /\ i < Len(http.log) => Retryable(http.log[i])
          /\ OtherErrorStatus(http.log[i])
                => (i = Len(http.log) /\ http.state = "failed")

\* An HTTP error status that ends the fetch: none of the forcelist, and not
\* a 413 that carries Retry-After.
FinalErrorStatus(resp) ==
    OtherErrorStatus(resp) /\ ~(resp.status = 413 /\ resp.retry_after)

\* C9, amended: at most 4 attempts (the first and up to RetryTotal
\* retries); an attempt is followed by another only after a forcelist
\* status, a transport failure or a 413 with a Retry-After header; any
\* other HTTP error status ends the fetch as a failure with no further
\* attempt, and so does a 413 with Retry-After once no retry is left.
C9_AtMostFourAttempts ==
    /\ Len(http.log) <= RetryTotal + 1
    /\ \A i \in 1..Len(http.log) :
          /\ i < Len(http.log) =>
                (Retryable(http.log[i]) \/ http.log[i] = Response(413, TRUE))
          /\ FinalErrorStatus(http.log[i])
                => (i = Len(http.log) /\ http.state = "failed")
          /\ (http.log[i] = Response(413, TRUE) /\ i = RetryTotal + 1)
                => http.state = "failed"

C9_Witness ==
    /\ Len(http.log) = RetryTotal + 1
    /\ http.state = "failed"
    /\ \A i \in 1..Len(http.log) : http.log[i] = Response(503, FALSE)

(***************************************************************************)
(* The notifier specification: one send_to_discord call on a batch,        *)
(* POST attempt by POST attempt.                                           *)
(***************************************************************************)
SendBatches ==
    {[k \in 1..n |-> Article(AbsLink(k))] : n \in 0..MaxSend}

InitNotify ==
    /\ notify \in {StartNotify(b) : b \in SendBatches}
    /\ IdleStore
    /\ source = DefaultSource
    /\ page = <<>>
    /\ max_articles = DefaultMaxArticles
    /\ extracted = NotExtracted
    /\ http = NoRequest
    /\ run = NoRun
    /\ callers = NoCallers

Enter ==
    /\ notify.state = "called"
    /\ notify' = EnterNotify(notify)
    /\ UNCHANGED <<storeVars, extractVars, http, run, callers>>

PostAttempt ==
    /\ notify.state = "sending"
    /\ \E resp \in PostResponses : notify' = PostStep(notify, resp)
    /\ UNCHANGED <<storeVars, extractVars, http, run, callers>>

SaveCsv ==
    /\ notify.state = "saving"
    /\ \E io \in {"ok", "OSError"} : notify' = SaveStep(notify, io)
    /\ UNCHANGED <<storeVars, extractVars, http, run, callers>>

NextNotify == Enter \/ PostAttempt \/ SaveCsv

SpecNotify == InitNotify /\ [][NextNotify]_vars

\* C3 as claimed: an article whose POST was answered 429 is not posted
\* again; the notifier sleeps and goes on to the next article, so that
\* when the call ends the next article has been posted.
C3_RateLimitedNotRetried ==
    \A k \in 1..Len(notify.articles) :
        notify.limited[k] =>
            /\ notify.attempts[k] = 1
            /\ (notify.i > k \/ notify.state \notin {"called", "sending"})
                  => notify.sleeps >= 1
            /\ (k < Len(notify.articles)
                /\ notify.state \notin {"called", "sending"})
                  => notify.attempts[k + 1] >= 1

(***************************************************************************)
(* The orchestrator specification: runs of run() over the configured       *)
(* sources, one after the other, the clock advancing between runs.         *)
(***************************************************************************)
\* The configured sources: the default source NumSources times, or with
\* the first of them leaving category_selector out.
RunSources ==
    {[k \in 1..NumSources |->
        IF k = broken THEN Without(DefaultSource, "category_selector")
        ELSE DefaultSource] : broken \in 0..1}

\* The listings a source shows: at most two titled elements with absolute
\* hrefs.
RunElements ==
    {[sponsored |-> FALSE, title |-> " Title ",
      href |-> [http |-> TRUE, path |-> l]] : l \in 1..NumLinks}

RunPages ==
    {<<>>} \cup {<<e>> : e \in RunElements}
           \cup {<<p[1], p[2]>> :
                    p \in {q \in RunElements \X RunElements :
                              q[1].href.path <= q[2].href.path}}

\* The seen file the first run finds: none, unparsable, or one record of
\* an earlier run (the links being interchangeable, of the first link).
RunInitFiles ==
    {MissingFile, GarbageFile}
        \cup {ListFile(<<SeenRecord(AbsLink(1), t)>>) : t \in InitTimes}

InitRun ==
    /\ run \in {NewRun(srcs, 0) : srcs \in RunSources}
    /\ seen_file \in RunInitFiles
    /\ now = 0
    /\ last = NoCall
    /\ source = DefaultSource
    /\ page = <<>>
    /\ max_articles = DefaultMaxArticles
    /\ extracted = NotExtracted
    /\ http = NoRequest
    /\ notify = NoNotify
    /\ callers = NoCallers

StartRun ==
    /\ run.pc \in {"idle", "done"}
    /\ run.runs < MaxRuns
    /\ run' = [NewRun(run.sources, run.runs + 1) EXCEPT
                    !.pc = "fetch", !.returns = run.returns,
                    !.reseen = run.reseen]
    /\ UNCHANGED <<storeVars, extractVars, http, notify, callers>>

RunGetArticles ==
    /\ run.pc = "fetch"
    /\ \E fetch \in FetchOutcomes, listing \in RunPages :
          \E r \in {get_articles(run.sources[run.i], listing, max_articles,
                                 fetch, "match")} :
              LET called == [run EXCEPT
                    !.fetched = Append(@, run.i),
                    !.fetch_failed = fetch # "ok"]
              IN  run' = IF r.exc # "none"
                         THEN OnRunException(called, r.exc)
                         ELSE [called EXCEPT !.pc = "dedup",
                                             !.articles = r.articles]
    /\ UNCHANGED <<storeVars, extractVars, http, notify, callers>>

RunRemoveDuplicates ==
    /\ run.pc = "dedup"
    /\ \E io \in IoOutcomes :
          \E r \in {remove_duplicates(run.articles, seen_file, now, io)} :
              /\ seen_file' = r.file
              /\ LET got == [run EXCEPT
                        !.unique = r.ret,
                        !.unposted = @ \cup LinksOf(r.ret),
                        !.returns = ReturnsAfter(@, r.ret, now),
                        !.reseen = @ \/ SeenAgain(run.returns, run.articles,
                                                  now)]
                 IN  run' = IF r.raised THEN OnRunException(got, r.exc)
                            ELSE IF r.ret = <<>> THEN AfterSource(got)
                            ELSE [got EXCEPT !.pc = "send"]
    /\ UNCHANGED <<now, last, extractVars, http, notify, callers>>

RunSendToDiscord ==
    /\ run.pc = "send"
    /\ \E sent \in 0..Len(run.unique), io \in {"ok", "OSError"} :
          \E r \in {send_to_discord(run.unique, sent, io)} :
              LET got == [run EXCEPT !.unposted = @ \ r.posted]
              IN  run' = IF r.exc # "none" THEN OnRunException(got, r.exc)
                         ELSE AfterSource(got)
    /\ UNCHANGED <<storeVars, extractVars, http, notify, callers>>

\* Time passes between one run and the next: a day, or, after a run at
\* the first instant, a whole retention period.
RunTick ==
    /\ run.pc = "done"
    /\ now < MaxTime
    /\ now' \in {now + 1} \cup (IF now = 0 THEN {RetentionDays} ELSE {})
    /\ UNCHANGED <<seen_file, last, extractVars, http, notify, run, callers>>

NextRun ==
    \/ StartRun
    \/ RunGetArticles
    \/ RunRemoveDuplicates
    \/ RunSendToDiscord
    \/ RunTick

SpecRun == InitRun /\ [][NextRun]_vars

\* C4: run() never raises; when it ends, get_articles has been called for
\* every configured source, in configured order, whatever failed for the
\* sources before; a source whose listing fetch failed has no articles.
C4_EverySourceAttempted ==
    /\ run.pc # "raised"
    /\ run.pc = "done" =>
          run.fetched = [k \in 1..Len(run.sources) |-> k]
    /\ run.pc \notin {"idle", "done"} =>
          run.fetched = [k \in 1..(IF run.pc = "fetch" THEN run.i - 1
                                   ELSE run.i) |-> k]
    /\ (run.pc = "dedup" /\ run.fetch_failed) =>
          run.articles = <<>>

C4_Witness ==
    /\ run.pc = "done"
    /\ run.fetched = <<1, 2>>
    /\ 1 \in run.failed
    /\ 2 \notin run.failed
    /\ run.runs = 1
    /\ run.unposted = {}
    /\ \E l \in Links : run.returns[l] # <<>>

\* C12 as claimed: when a run ends, every link the run added to the seen
\* file has had its article POSTed successfully.
C12_SeenMeansDelivered ==
    run.pc = "done" => run.unposted = {}

\* C14: of two returns of the same link as new by remove_duplicates, in
\* one run or in different runs, the later one comes RetentionDays or
\* more after the earlier one.
C14_AtMostOncePerWindow ==
    \A l \in Links : \A k \in 1..(Len(run.returns[l]) - 1) :
        run.returns[l][k + 1] - run.returns[l][k] >= RetentionDays

\* A link returned as new in the first run is handed to remove_duplicates
\* again in the second run, a day later, and is not returned again.
C14_Witness ==
    /\ run.pc = "done"
    /\ run.runs = 2
    /\ now = 1
    /\ run.reseen
    /\ \E l \in Links : run.returns[l] = <<0>>

(***************************************************************************)
(* The concurrent specification: two calls of remove_duplicates on the     *)
(* same seen file, their file operations interleaved in any order.         *)
(***************************************************************************)
InitConcurrent ==
    /\ callers \in [Callers -> {StartCaller(b) : b \in Batches}]
    /\ InitStoreVars
    /\ source = DefaultSource
    /\ page = <<>>
    /\ max_articles = DefaultMaxArticles
    /\ extracted = NotExtracted
    /\ http = NoRequest
    /\ notify = NoNotify
    /\ run = NoRun

CallerRead(c) ==
    /\ callers[c].pc = "read"
    /\ callers' = [callers EXCEPT ![c] = ReadStep(@, seen_file, now)]
    /\ UNCHANGED <<storeVars, extractVars, http, notify, run>>

CallerOpen(c) ==
    /\ callers[c].pc = "open"
    /\ seen_file' = GarbageFile
    /\ callers' = [callers EXCEPT ![c] = OpenStep(@)]
    /\ UNCHANGED <<now, last, extractVars, http, notify, run>>

CallerDump(c) ==
    /\ callers[c].pc = "dump"
    /\ seen_file' \in DumpOutcomes(callers[c], seen_file)
    /\ callers' = [d \in Callers |->
                      IF d = c THEN DumpStep(callers[c])
                      ELSE IF callers[d].pc = "dump"
                      THEN [callers[d] EXCEPT !.overlapped = TRUE]
                      ELSE callers[d]]
    /\ UNCHANGED <<now, last, extractVars, http, notify, run>>

NextConcurrent ==
    \E c \in Callers : CallerRead(c) \/ CallerOpen(c) \/ CallerDump(c)

SpecConcurrent == InitConcurrent /\ [][NextConcurrent]_vars

AllReturned == \A c \in Callers : callers[c].pc = "done"

\* The article lists of the two calls have a link in common.
Overlapping ==
    \E c, d \in Callers :
        c # d /\ LinksOf(callers[c].articles)
                    \cap LinksOf(callers[d].articles) # {}

\* C13 as claimed: when two concurrent calls with overlapping article
\* links have returned, no link was returned as new by both, and every
\* link a call returned as new has its record in the seen file.
C13_CallsSerialized ==
    (AllReturned /\ Overlapping) =>
        /\ \A c, d \in Callers :
              c # d => LinksOf(callers[c].ret) \cap LinksOf(callers[d].ret) = {}
        /\ \A c \in Callers : \A l \in LinksOf(callers[c].ret) :
              /\ seen_file.kind = "list"
              /\ \E i \in 1..Len(seen_file.data) :
                    HasKey(seen_file.data[i], "link")
                        /\ seen_file.data[i].link = l

====
